---- MODULE Spec2Model ----
(***************************************************************************)
(* The Product REST API of src/src/router.ts: six routes, each a chain of  *)
(* express-validator rules, the handleInputErrors middleware and a         *)
(* resource handler that talks to the products table through the ORM.      *)
(*                                                                         *)
(* A request is held in a slot from its arrival to its response; a slot    *)
(* keeps the last request and response until the next request takes it.    *)
(* Every `await` of a handler is a step boundary: one action runs the      *)
(* database statement the handler awaits together with the handler code    *)
(* that follows it, up to the next statement sent or to the response.      *)
(* The rules and the handler's first statement run in the step of the      *)
(* arrival.  Requests in different slots interleave at these boundaries,   *)
(* as they do on the event loop.                                           *)
(*                                                                         *)
(* Strings are sequences of one-character strings, so that the validators  *)
(* and the conversions are computed character by character.  Numbers are   *)
(* integers.  Request bodies carry scalar values only.                     *)
(***************************************************************************)
EXTENDS Integers, Sequences, FiniteSets

VARIABLES storage, seq, slot, nreq

vars == <<storage, seq, slot, nreq>>

\* ------------------------------------------------------------- bounds
MaxRequests == 3

Slots == 1..2

\* ------------------------------------------------------- JSON values
Undef == [t |-> "undefined", n |-> 0, s |-> <<>>, b |-> FALSE]
Num(n) == [t |-> "number", n |-> n, s |-> <<>>, b |-> FALSE]
Str(s) == [t |-> "string", n |-> 0, s |-> s, b |-> FALSE]
Bool(b) == [t |-> "boolean", n |-> 0, s |-> <<>>, b |-> b]

Digits == {"0", "1", "2", "3", "4", "5", "6", "7", "8", "9"}

DigitVal(c) ==
    CASE c = "0" -> 0 [] c = "1" -> 1 [] c = "2" -> 2 [] c = "3" -> 3
      [] c = "4" -> 4 [] c = "5" -> 5 [] c = "6" -> 6 [] c = "7" -> 7
      [] c = "8" -> 8 [] c = "9" -> 9 [] OTHER -> 0

AllDigits(s) == \A i \in 1..Len(s) : s[i] \in Digits

HasSign(s) == Len(s) > 0 /\ s[1] \in {"+", "-"}

Unsigned(s) == IF HasSign(s) THEN Tail(s) ELSE s

RECURSIVE DigitsValue(_)
DigitsValue(s) ==
    IF s = <<>> THEN 0
    ELSE 10 * DigitsValue(SubSeq(s, 1, Len(s) - 1)) + DigitVal(s[Len(s)])

\* The decimal rendering of a natural number.
RECURSIVE NatToStr(_)
NatToStr(n) ==
    LET d == CHOOSE c \in Digits : DigitVal(c) = n % 10
    IN  IF n < 10 THEN <<d>> ELSE Append(NatToStr(n \div 10), d)

IntToStr(n) == IF n < 0 THEN <<"-">> \o NatToStr(-n) ELSE NatToStr(n)

\* express-validator's toString of a field value before a standard validator.
toString(v) ==
    CASE v.t = "undefined" -> <<>>
      [] v.t = "string" -> v.s
      [] v.t = "number" -> IntToStr(v.n)
      [] v.t = "boolean" -> IF v.b THEN <<"t", "r", "u", "e">>
                                   ELSE <<"f", "a", "l", "s", "e">>

\* validator.js isInt, default options: /^[-+]?[0-9]+$/
isInt(s) == LET r == Unsigned(s) IN Len(r) > 0 /\ AllDigits(r)

\* validator.js isNumeric, default options: /^[+-]?([0-9]*[.])?[0-9]+$/
isNumeric(s) ==
    LET r == Unsigned(s)
    IN  \/ Len(r) > 0 /\ AllDigits(r)
        \/ \E i \in 1..Len(r) :
              /\ r[i] = "."
              /\ AllDigits(SubSeq(r, 1, i - 1))
              /\ i < Len(r)
              /\ AllDigits(SubSeq(r, i + 1, Len(r)))

\* validator.js isEmpty, default options: the string has length 0.
isEmpty(s) == Len(s) = 0

\* validator.js isBoolean, default options: one of true, false, 1, 0.
isBoolean(s) ==
    s \in {<<"t", "r", "u", "e">>, <<"f", "a", "l", "s", "e">>, <<"1">>, <<"0">>}

\* The integer a signed decimal literal denotes.
ParseInt(s) ==
    IF HasSign(s) /\ s[1] = "-" THEN -DigitsValue(Tail(s)) ELSE DigitsValue(Unsigned(s))

\* JavaScript's ToNumber on the modelled values; nan marks NaN.  Numbers are
\* integers here, so a literal with a decimal point has no value in the model.
ToNumber(v) ==
    CASE v.t = "number" -> [nan |-> FALSE, n |-> v.n]
      [] v.t = "boolean" -> [nan |-> FALSE, n |-> IF v.b THEN 1 ELSE 0]
      [] v.t = "undefined" -> [nan |-> TRUE, n |-> 0]
      [] v.t = "string" ->
            IF v.s = <<>> THEN [nan |-> FALSE, n |-> 0]
            ELSE IF isInt(v.s) THEN [nan |-> FALSE, n |-> ParseInt(v.s)]
            ELSE [nan |-> TRUE, n |-> 0]

\* The custom price rule, value => value > 0.
GreaterThanZero(v) == LET x == ToNumber(v) IN ~x.nan /\ x.n > 0

\* ---------------------------------------------------- the products table
\* A row of the products table (the Product model's attributes).
Row(i, nm, pr, av) == [id |-> i, name |-> nm, price |-> pr, availability |-> av]

\* The column default of availability.
DefaultAvailability == TRUE

Ids(rows) == {r.id : r \in rows}

\* Product.findByPk: the instance, or null (the empty sequence).
findByPk(rows, k) ==
    LET m == {r \in rows : r.id = k}
    IN  IF m = {} THEN <<>> ELSE <<CHOOSE r \in m : TRUE>>

\* Product.findAll({order: [['id', 'DESC']]})
RECURSIVE findAllDesc(_)
findAllDesc(rows) ==
    IF rows = {} THEN <<>>
    ELSE LET top == CHOOSE r \in rows : \A q \in rows : q.id <= r.id
         IN  <<top>> \o findAllDesc(rows \ {top})

\* INSERT under the primary-key constraint: ok is FALSE on a duplicate key.
Insert(rows, r) ==
    IF r.id \in Ids(rows) THEN [ok |-> FALSE, rows |-> rows]
    ELSE [ok |-> TRUE, rows |-> rows \cup {r}]

\* UPDATE ... WHERE id = r.id, of the columns in cols; no row matched is no error.
Update(rows, r, cols) ==
    {IF q.id = r.id
       THEN Row(q.id,
                IF "name" \in cols THEN r.name ELSE q.name,
                IF "price" \in cols THEN r.price ELSE q.price,
                IF "availability" \in cols THEN r.availability ELSE q.availability)
       ELSE q : q \in rows}

\* DELETE ... WHERE id = r.id
Destroy_Nothing(rows, r) == rows

Destroy(rows, r) == {q \in rows : q.id # r.id}

\* The boolean a value accepted by the BOOLEAN column denotes.
ToBoolean(v) ==
    IF v.t = "boolean" THEN v.b
    ELSE toString(v) \in {<<"t", "r", "u", "e">>, <<"1">>}

\* ------------------------------------------------------------ responses
Resp(st, kind, rows, msgs) == [status |-> st, body |-> kind, rows |-> rows, msgs |-> msgs]

NoResp == Resp(0, "none", <<>>, <<>>)

\* res.status(400).json({errors: [...]}) of handleInputErrors
BadRequest(msgs) == Resp(400, "errors", <<>>, msgs)

\* res.status(404).json({error: 'Producto no Encontrado'})
NotFound_DefaultStatus == Resp(200, "error", <<>>, <<"Producto no Encontrado">>)

NotFound == Resp(404, "error", <<>>, <<"Producto no Encontrado">>)

\* res.json({data: ...})
Ok(rows) == Resp(200, "data", rows, <<>>)

\* res.status(201).json({data: product})
Created(r) == Resp(201, "data", <<r>>, <<>>)

\* res.json({data: 'Producto Eliminado'})
Deleted == Resp(200, "data", <<>>, <<"Producto Eliminado">>)

\* ------------------------------------------------------ validation rules
Check(ok, msg) == IF ok THEN <<>> ELSE <<msg>>

\* param('id').isInt().withMessage('ID no valido')
IdRule_Any(param) == <<>>

IdRule(param) == Check(isInt(param), "ID no valido")

\* body('name').notEmpty().withMessage(...)
NameRule_Any(body) == <<>>

NameRule(body) ==
    Check(~isEmpty(toString(body.name)), "El nombre del Producto no puede ir vacio")

\* body('price').isNumeric()....notEmpty()....custom(value => value > 0)...
\* The chain does not bail: every validator runs and every failure is listed.
PriceRule_NonNegative(body) ==
       Check(isNumeric(toString(body.price)), "Valor no valido")
    \o Check(~isEmpty(toString(body.price)), "El precio del Producto no puede ir vacio")
    \o Check(~ToNumber(body.price).nan /\ ToNumber(body.price).n >= 0, "Precio no valido")

PriceRule(body) ==
       Check(isNumeric(toString(body.price)), "Valor no valido")
    \o Check(~isEmpty(toString(body.price)), "El precio del Producto no puede ir vacio")
    \o Check(GreaterThanZero(body.price), "Precio no valido")

\* body('availability').isBoolean().withMessage(...)
AvailabilityRule(body) ==
    Check(isBoolean(toString(body.availability)), "Valor para disponibilidad no valido")

PostRules(body) == NameRule(body) \o PriceRule(body)

PutRules(param, body) ==
    IdRule(param) \o NameRule(body) \o PriceRule(body) \o AvailabilityRule(body)

\* --------------------------------------------------------------- inputs
NameA == <<"a">>
NameB == <<"b">>

Body(nm, pr, av, i) == [name |-> nm, price |-> pr, availability |-> av, id |-> i]

EmptyBody == Body(Undef, Undef, Undef, Undef)

\* The bodies sent to POST: name and price that pass the rules, alone, with
\* an availability or with an id; and bodies that break one rule each.
PostBodies ==
    {Body(Str(NameA), Num(1), av, Undef) : av \in {Undef, Bool(FALSE)}}
    \cup {Body(Str(NameB), Str(<<"2">>), Undef, i) : i \in {Undef, Num(2)}}
    \cup {Body(nm, Num(1), Undef, Undef) : nm \in {Undef, Str(<<>>)}}
    \cup {Body(Str(NameA), pr, Undef, Undef) :
            pr \in {Undef, Num(0), Num(-1), Str(<<"x">>)}}

\* The bodies sent to PUT: the three fields, valid, also with an id; and
\* bodies that break one rule each.
GoodPutBodies ==
    {Body(Str(NameA), Num(1), Bool(FALSE), Undef),
     Body(Str(NameB), Str(<<"2">>), Bool(TRUE), Undef),
     Body(Str(NameB), Num(1), Bool(TRUE), Num(2))}

BadPutBodies ==
    {Body(Str(<<>>), Num(1), Bool(TRUE), Undef),
     Body(Str(NameA), Num(0), Bool(TRUE), Undef),
     Body(Str(NameA), Str(<<"x">>), Bool(TRUE), Undef),
     Body(Str(NameA), Num(1), Undef, Undef),
     Body(Str(NameA), Num(1), Str(<<"x">>), Undef)}

\* The id path parameters: integers as the database reads them, and text.
IdParams == {<<"1">>, <<"0", "2">>, <<"-", "1">>, <<"x">>}

\* The PUT requests: every integer id with every valid body; an id that is
\* no integer with a valid and with an invalid body; the invalid bodies.
PutRequests ==
    ({p \in IdParams : isInt(p)} \X GoodPutBodies)
    \cup ({<<"1">>} \X BadPutBodies)
    \cup {<<<<"x">>, Body(Str(NameA), Num(1), Bool(FALSE), Undef)>>,
          <<<<"x">>, Body(Str(<<>>), Num(0), Undef, Undef)>>}

\* ---------------------------------------------------------------- slots
FreePc == {"idle", "done", "rejected"}

IdleSlot ==
    [pc |-> "idle", no |-> 0, op |-> "none", param |-> <<>>, body |-> EmptyBody,
     inst |-> <<>>, resp |-> NoResp, invoked |-> FALSE, pre |-> <<>>,
     wrote |-> FALSE]

Free(s) == slot[s].pc \in FreePc

Quiescent == \A s \in Slots : Free(s)

\* An arriving request takes the free slot whose response is the oldest.
Oldest(s) ==
    /\ Free(s)
    /\ \A t \in Slots \ {s} :
          Free(t) => \/ slot[s].no < slot[t].no
                     \/ slot[s].no = slot[t].no /\ s < t

\* The request as it leaves handleInputErrors: answered 400 with the failures
\* of the rules, or handed to the handler.
handleInputErrors(op, param, body, errors) ==
    [IdleSlot EXCEPT
        !.no = nreq + 1, !.op = op, !.param = param, !.body = body,
        !.pc = IF errors = <<>> THEN "handler" ELSE "done",
        !.invoked = (errors = <<>>),
        !.resp = IF errors = <<>> THEN NoResp ELSE BadRequest(errors)]

\* One step of the request in slot s: its slot, the table and the sequence
\* after the step.  wrote records whether the request has changed the table.
Step(s, after, rows, nextval) ==
    /\ storage' = rows
    /\ seq' = nextval
    /\ \E a \in {after} :
          /\ slot' = [slot EXCEPT ![s] = [a EXCEPT !.wrote = a.wrote \/ storage' # storage]]
          /\ nreq' = IF a.no > nreq THEN a.no ELSE nreq

\* ------------------------------------------------------------- handlers
\* A handler runs from the request r that handleInputErrors handed over.
\* Its first database statement runs in the step of the arrival: nothing a
\* request does before it is visible to another request.

\* const { id } = req.params; await Product.findByPk(id).  The database casts
\* the text to the key's integer type and fails on text that is no integer.
Lookup(r) ==
    IF isInt(r.param)
      THEN [ok |-> TRUE, inst |-> findByPk(storage, ParseInt(r.param))]
      ELSE [ok |-> FALSE, inst |-> <<>>]

\* A rejected promise of a handler: nothing answers the request.
Rejected(r) == [r EXCEPT !.pc = "rejected"]

\* pre records what the lookup found, before the handler changes the instance.
Fetched(r, inst) == [r EXCEPT !.inst = inst, !.pre = inst]

\* getProducts
getProducts(s, r) ==
    LET products == findAllDesc(storage)
    IN  Step(s, [r EXCEPT !.pc = "done", !.inst = products, !.resp = Ok(products)],
             storage, seq)

\* getProductsById
getProductsById(s, r) ==
    LET q == Lookup(r)
    IN  IF ~q.ok THEN Step(s, Rejected(r), storage, seq)
        ELSE Step(s, [Fetched(r, q.inst) EXCEPT
                         !.pc = "done",
                         !.resp = IF q.inst = <<>> THEN NotFound ELSE Ok(q.inst)],
                  storage, seq)

\* Product.create(req.body): every attribute the body carries is taken from
\* it, the key included; the key comes from the sequence and availability
\* from the column default only when the body does not carry them.
Create(rows, nextval, body) ==
    LET given == body.id.t # "undefined"
        valid == /\ ~ToNumber(body.price).nan
                 /\ body.availability.t = "undefined"
                      \/ isBoolean(toString(body.availability))
                 /\ ~given \/ body.id.t = "number"
        row == Row(IF given THEN body.id.n ELSE nextval,
                   toString(body.name),
                   ToNumber(body.price).n,
                   IF body.availability.t = "undefined" THEN DefaultAvailability
                   ELSE ToBoolean(body.availability))
        ins == Insert(rows, row)
    IN  IF ~valid THEN [ok |-> FALSE, rows |-> rows, seq |-> nextval, row |-> row]
        ELSE [ok |-> ins.ok, rows |-> ins.rows,
              seq |-> IF given THEN nextval ELSE nextval + 1, row |-> row]

\* createProduct
createProduct(s, r) ==
    LET c == Create(storage, seq, r.body)
    IN  IF ~c.ok THEN Step(s, Rejected(r), c.rows, c.seq)
        ELSE Step(s, [r EXCEPT !.pc = "done", !.inst = <<c.row>>,
                               !.resp = Created(c.row)],
                  c.rows, c.seq)

\* products.update(req.body), the assignment: a primary key that is already
\* defined is not assigned.
Set(row, body) ==
    Row(row.id, toString(body.name), ToNumber(body.price).n,
        ToBoolean(body.availability))

\* Whether the assignment changed an attribute (save() sends no statement
\* otherwise); the raw request value is compared with the stored one.
Changed(row, body) ==
    \/ body.name # Str(row.name)
    \/ body.price # Num(row.price)
    \/ body.availability # Bool(row.availability)

\* updateProduct, up to the statement of products.update(req.body)
updateProduct(s, r) ==
    LET q == Lookup(r)
    IN  IF ~q.ok THEN Step(s, Rejected(r), storage, seq)
        ELSE IF q.inst = <<>>
          THEN Step(s, [Fetched(r, q.inst) EXCEPT !.pc = "done", !.resp = NotFound],
                    storage, seq)
        ELSE Step(s, [Fetched(r, q.inst) EXCEPT
                         !.pc = "persist", !.inst = <<Set(q.inst[1], r.body)>>],
                  storage, seq)

\* updateProduct, the UPDATE, the second save() (nothing has changed: no
\* statement) and the response
updateProduct_save(s) ==
    /\ slot[s].pc = "persist" /\ slot[s].op = "put"
    /\ Step(s, [slot[s] EXCEPT !.pc = "done", !.resp = Ok(slot[s].inst)],
            IF Changed(slot[s].pre[1], slot[s].body)
              THEN Update(storage, slot[s].inst[1], {"name", "price", "availability"})
              ELSE storage,
            seq)

\* products.availability = !products.dataValues.availability
Toggle_SetFalse(row) == [row EXCEPT !.availability = FALSE]

Toggle(row) == [row EXCEPT !.availability = ~row.availability]

\* updateAvailability, up to the statement of products.save()
updateAvailability(s, r) ==
    LET q == Lookup(r)
    IN  IF ~q.ok THEN Step(s, Rejected(r), storage, seq)
        ELSE IF q.inst = <<>>
          THEN Step(s, [Fetched(r, q.inst) EXCEPT !.pc = "done", !.resp = NotFound],
                    storage, seq)
        ELSE Step(s, [Fetched(r, q.inst) EXCEPT
                         !.pc = "persist", !.inst = <<Toggle(q.inst[1])>>],
                  storage, seq)

\* updateAvailability, the UPDATE of the changed column and the response
updateAvailability_save(s) ==
    /\ slot[s].pc = "persist" /\ slot[s].op = "patch"
    /\ Step(s, [slot[s] EXCEPT !.pc = "done", !.resp = Ok(slot[s].inst)],
            IF slot[s].inst # slot[s].pre
              THEN Update(storage, slot[s].inst[1], {"availability"})
              ELSE storage,
            seq)

\* deleteProduct, up to the statement of products.destroy()
deleteProduct(s, r) ==
    LET q == Lookup(r)
    IN  IF ~q.ok THEN Step(s, Rejected(r), storage, seq)
        ELSE IF q.inst = <<>>
          THEN Step(s, [Fetched(r, q.inst) EXCEPT !.pc = "done", !.resp = NotFound],
                    storage, seq)
        ELSE Step(s, [Fetched(r, q.inst) EXCEPT !.pc = "persist"], storage, seq)

\* deleteProduct, the DELETE and the response
deleteProduct_destroy(s) ==
    /\ slot[s].pc = "persist" /\ slot[s].op = "delete"
    /\ Step(s, [slot[s] EXCEPT !.pc = "done", !.resp = Deleted],
            Destroy(storage, slot[s].inst[1]), seq)

\* --------------------------------------------------------------- routes
\* A route: the rules, handleInputErrors, then the handler or the 400.
CanArrive(s) == nreq < MaxRequests /\ Oldest(s)

\* The 400 of handleInputErrors is the whole request.
Answered(s, r) == Step(s, r, storage, seq)

\* router.get('/', getProducts)
RouteGetAll(s) ==
    /\ CanArrive(s)
    /\ \E r \in {handleInputErrors("list", <<>>, EmptyBody, <<>>)} :
          IF r.invoked THEN getProducts(s, r) ELSE Answered(s, r)

\* router.get('/:id', ...)
RouteGetById(s) ==
    /\ CanArrive(s)
    /\ \E p \in IdParams :
       \E r \in {handleInputErrors("get", p, EmptyBody, IdRule(p))} :
          IF r.invoked THEN getProductsById(s, r) ELSE Answered(s, r)

\* router.post('/', ...)
RoutePost(s) ==
    /\ CanArrive(s)
    /\ \E b \in PostBodies :
       \E r \in {handleInputErrors("create", <<>>, b, PostRules(b))} :
          IF r.invoked THEN createProduct(s, r) ELSE Answered(s, r)

\* router.put('/:id', ...)
RoutePut(s) ==
    /\ CanArrive(s)
    /\ \E q \in PutRequests :
       \E r \in {handleInputErrors("put", q[1], q[2], PutRules(q[1], q[2]))} :
          IF r.invoked THEN updateProduct(s, r) ELSE Answered(s, r)

\* router.patch('/:id', ...)
RoutePatch(s) ==
    /\ CanArrive(s)
    /\ \E p \in IdParams :
       \E r \in {handleInputErrors("patch", p, EmptyBody, IdRule(p))} :
          IF r.invoked THEN updateAvailability(s, r) ELSE Answered(s, r)

\* router.delete('/:id', ...)
RouteDelete(s) ==
    /\ CanArrive(s)
    /\ \E p \in IdParams :
       \E r \in {handleInputErrors("delete", p, EmptyBody, IdRule(p))} :
          IF r.invoked THEN deleteProduct(s, r) ELSE Answered(s, r)

\* -------------------------------------------------------- specifications
\* The table when the server starts: empty, or holding an earlier product.
InitialTables == {{}, {Row(1, NameA, 1, TRUE), Row(2, NameB, 2, FALSE)}}

Init ==
    /\ storage \in InitialTables
    /\ seq = Cardinality(storage) + 1
    /\ slot = [s \in Slots |-> IdleSlot]
    /\ nreq = 0

\* Requests arrive at any time and interleave at their awaits.
Next ==
    \E s \in Slots :
        \/ RouteGetAll(s)
        \/ RouteGetById(s)
        \/ RoutePost(s)
        \/ RoutePut(s)
        \/ RoutePatch(s)
        \/ RouteDelete(s)
        \/ updateProduct_save(s)
        \/ updateAvailability_save(s)
        \/ deleteProduct_destroy(s)

Spec == Init /\ [][Next]_vars

\* A client that sends each request after the response to the one before.
NextSeq ==
    \E s \in Slots :
        \/ Quiescent /\ RouteGetAll(s)
        \/ Quiescent /\ RouteGetById(s)
        \/ Quiescent /\ RoutePost(s)
        \/ Quiescent /\ RoutePut(s)
        \/ Quiescent /\ RoutePatch(s)
        \/ Quiescent /\ RouteDelete(s)
        \/ updateProduct_save(s)
        \/ updateAvailability_save(s)
        \/ deleteProduct_destroy(s)

SeqSpec == Init /\ [][NextSeq]_vars

\* ----------------------------------------------------------- properties
ByIdOps == {"get", "put", "patch", "delete"}

\* The step in which slot s takes a new request.
Arrives(s) == nreq' = nreq + 1 /\ slot'[s].no = nreq'

Responded(s) == slot[s].no > 0 /\ slot[s].pc = "done"

\* The id a request with an integer path parameter names.
Target(s) == ParseInt(slot[s].param)

\* Request t arrived right after request s.
Follows(s, t) == slot[s].no > 0 /\ slot[t].no = slot[s].no + 1

Stored(k) == findByPk(storage, k)

EmptyName(body) ==
    body.name.t = "undefined" \/ (body.name.t = "string" /\ body.name.s = <<>>)

\* The price is no number greater than zero.
BadPrice(body) == ToNumber(body.price).nan \/ ToNumber(body.price).n <= 0

C2_PricePositiveNameNonEmpty == \A r \in storage : r.price > 0 /\ r.name # <<>>

C2_Witness ==
    \E s, t \in Slots :
        /\ slot[s].op = "create" /\ slot[s].resp.status = 201
        /\ slot[s].body.price = Str(<<"2">>)
        /\ slot[s].resp.rows[1] \in storage
        /\ slot[t].op = "put" /\ slot[t].resp.status = 400
        /\ BadPrice(slot[t].body)

\* C3: ids are system-generated, unique and immutable: no two stored products
\* share an id, the id of a created product is the one the sequence generated
\* and not one from the body, and a Put or a Patch leaves the id of its
\* product, and the ids in the table, as they were.
C3_IdGeneratedUniqueImmutable ==
    [][/\ Cardinality(Ids(storage')) = Cardinality(storage')
       /\ \A s \in Slots :
            (Arrives(s) /\ slot'[s].op = "create" /\ slot'[s].resp.status = 201)
            => slot'[s].resp.rows[1].id = seq
       /\ \A s \in Slots :
            (slot'[s].op \in {"put", "patch"} /\ slot'[s] # slot[s])
            => /\ Ids(storage') = Ids(storage)
               /\ slot'[s].resp.status = 200
                    => slot'[s].resp.rows[1].id = ParseInt(slot'[s].param)]_vars

\* C4: a Get by the id a Create returned in its 201, with no request in
\* between, returns the name and the price of the Create's body and
\* availability = true.
C4_CreateThenGet ==
    \A s, t \in Slots :
        (/\ Follows(s, t) /\ Responded(s) /\ Responded(t)
         /\ slot[s].op = "create" /\ slot[s].resp.status = 201
         /\ slot[t].op = "get" /\ isInt(slot[t].param)
         /\ Target(t) = slot[s].resp.rows[1].id)
        => /\ slot[t].resp.status = 200
           /\ slot[t].resp.rows[1].name = slot[s].body.name.s
           /\ slot[t].resp.rows[1].price = ToNumber(slot[s].body.price).n
           /\ slot[t].resp.rows[1].availability = TRUE

\* C5: two Patch requests on the id of a stored product, the second sent
\* after the response to the first, both answer 200 and leave the product's
\* availability as it was before the first.
C5_PatchTwiceRestores ==
    \A s, t \in Slots :
        (/\ Follows(s, t) /\ Responded(s) /\ Responded(t)
         /\ slot[s].op = "patch" /\ slot[t].op = "patch"
         /\ isInt(slot[s].param) /\ isInt(slot[t].param)
         /\ Target(s) = Target(t)
         /\ slot[s].pre # <<>>)
        => /\ slot[s].resp.status = 200
           /\ slot[t].resp.status = 200
           /\ Stored(Target(t)) # <<>>
           /\ Stored(Target(t))[1].availability = slot[s].pre[1].availability

C5_Witness ==
    \E s, t \in Slots :
        /\ Follows(s, t) /\ Responded(s) /\ Responded(t)
        /\ slot[s].op = "patch" /\ slot[t].op = "patch"
        /\ slot[s].param = <<"0", "2">> /\ slot[t].param = <<"0", "2">>
        /\ slot[s].pre # <<>>
        /\ slot[s].resp.status = 200 /\ slot[t].resp.status = 200
        /\ slot[s].resp.rows[1].availability # slot[t].resp.rows[1].availability

C8_InvalidBodyIs400 ==
    \A s \in Slots :
        (/\ slot[s].no > 0 /\ slot[s].op \in {"create", "put"}
         /\ EmptyName(slot[s].body) \/ BadPrice(slot[s].body))
        => /\ slot[s].pc = "done"
           /\ slot[s].resp.status = 400
           /\ slot[s].resp.body = "errors"
           /\ slot[s].resp.msgs # <<>>
           /\ ~slot[s].invoked
           /\ ~slot[s].wrote

C8_Witness ==
    \E s, t \in Slots :
        /\ slot[s].op = "create" /\ EmptyName(slot[s].body) /\ slot[s].resp.status = 400
        /\ slot[t].op = "put" /\ BadPrice(slot[t].body) /\ slot[t].resp.status = 400
        /\ isInt(slot[t].param) /\ Stored(Target(t)) # <<>>

\* C9: when the only two requests are two Patch requests on the same stored
\* product and both have answered 200, however their steps interleaved, the
\* product's availability is what it was at first.
C9_ConcurrentPatchesRestore ==
    \A s, t \in Slots :
        (/\ nreq = 2 /\ slot[s].no = 1 /\ slot[t].no = 2
         /\ slot[s].op = "patch" /\ slot[t].op = "patch"
         /\ Responded(s) /\ Responded(t)
         /\ slot[s].resp.status = 200 /\ slot[t].resp.status = 200
         /\ Target(s) = Target(t))
        => /\ Stored(Target(s)) # <<>>
           /\ Stored(Target(s))[1].availability = slot[s].pre[1].availability

\* C10, the response: a Put or a Patch answers 200 only if the product it
\* returns is in the table when it answers.
C10_OkOnlyIfStored ==
    [][\A s \in Slots :
          (/\ slot'[s].op \in {"put", "patch"}
           /\ slot[s].pc # "done" /\ slot'[s].pc = "done"
           /\ slot'[s].resp.status = 200)
          => slot'[s].resp.rows[1].id \in Ids(storage')]_vars

\* C10, the row: once a Delete on an id has answered 200, no later state of
\* the table holds a product with that id.
C10_DeletedStaysDeleted ==
    [][\A s \in Slots :
          (Responded(s) /\ slot[s].op = "delete" /\ slot[s].resp.status = 200)
          => Target(s) \notin Ids(storage')]_vars

====
